---------------------------- MODULE Spec2Model ----------------------------
(***************************************************************************)
(* Model of the HathiTrust page pipeline:                                  *)
(*   scripts/process_ht_fulltext.py  (format_text, process_text_to_csv,    *)
(*                                    main)                                *)
(*   scripts/combine_dataFiles.py    (combine_csv_files, main)             *)
(* Text is a sequence of one-character strings; the regular expressions    *)
(* and string methods are computed character by character.                 *)
(***************************************************************************)
EXTENDS Integers, Sequences, FiniteSets, TLC

VARIABLES
    pc,              \* position of the running script: "start" or "exited"
    doc,             \* the input document, as the lines it is made of
    input_state,     \* the input file: "ok", "missing" or "unreadable"
    output_writable, \* whether open(output, 'w') succeeds
    page_data,       \* process_text_to_csv: the (page, text, clean_text) tuples
    result,          \* the message the function returned / main printed
    outfile,         \* the output file: Absent, or the table written
    exit_status,     \* the exit status of the process
    raw_text,        \* format_text: its argument
    clean_text,      \* format_text: its return value
    file1,           \* combine_csv_files: the first CSV file
    file2,           \* combine_csv_files: the second CSV file
    outer_sorts_keys,\* whether the installed pandas sorts the keys of an outer merge
    merged_presort,  \* merged_df as pd.merge returned it
    merged_df        \* merged_df as written

processVars == <<doc, page_data>>
formatVars  == <<raw_text, clean_text>>
combineVars == <<file1, file2, outer_sorts_keys, merged_presort, merged_df>>

vars == <<pc, input_state, output_writable, result, outfile, exit_status,
          processVars, formatVars, combineVars>>

\* ------------------------------------------------------------------ bounds

\* Most lines of a generated document.
MaxLines == 3

\* Most chunks of a generated raw page text.
MaxChunks == 7

\* ------------------------------------------------------------- characters

NL == "\n"
SP == " "
HASH == "#"

Digits == {"0", "1", "2", "3", "4", "5", "6", "7", "8", "9"}

\* str.strip() with no argument removes whitespace.
Whitespace == {SP, NL, "\t", "\r"}

\* The placeholder of format_text, 'PARAGRAPH_BREAK'.
PARAGRAPH_BREAK ==
    <<"P", "A", "R", "A", "G", "R", "A", "P", "H", "_", "B", "R", "E", "A", "K">>

\* The output file before anything is written, and after a table is.
Absent == [exists |-> FALSE, rows |-> <<>>]

Written(rows) == [exists |-> TRUE, rows |-> rows]
None == "none"

\* exit_status while the process runs.
NotExited == -1

Max(a, b) == IF a >= b THEN a ELSE b

\* ---------------------------------------------------------- string helpers

\* text[i:j] of Python with 1-based inclusive bounds: the characters i..j.
Slice(t, i, j) == IF j < i THEN <<>> ELSE SubSeq(t, i, j)

\* t[i:].startswith(pat)
StartsWithAt(t, i, pat) ==
    /\ i + Len(pat) - 1 <= Len(t)
    /\ \A k \in 1..Len(pat) : t[i + k - 1] = pat[k]

\* The least index of a set of indexes, 0 if there is none: where a scan
\* from left to right stops first.
FirstIndex(S) == IF S = {} THEN 0 ELSE CHOOSE j \in S : \A k \in S : j <= k

\* The index of the last character of the maximal run of characters of S
\* that starts at i (i - 1 when t[i] is not in S).
RunEnd(t, i, S) ==
    LET stop == FirstIndex({j \in i..Len(t) : t[j] \notin S})
    IN  IF i > Len(t) THEN i - 1
        ELSE IF stop = 0 THEN Len(t) ELSE stop - 1

\* str.replace(pat, rep) from index i on: the leftmost occurrence is
\* replaced, then those after its end.
RECURSIVE ReplaceFrom(_, _, _, _)
ReplaceFrom(t, i, pat, rep) ==
    LET j == FirstIndex({k \in i..Len(t) : StartsWithAt(t, k, pat)})
    IN  IF j = 0 THEN Slice(t, i, Len(t))
        ELSE Slice(t, i, j - 1) \o rep \o ReplaceFrom(t, j + Len(pat), pat, rep)

Replace(t, pat, rep) == ReplaceFrom(t, 1, pat, rep)

\* re.sub(r'c{n,}', rep, t) from index i on: the leftmost run of at least
\* n characters c is replaced whole (the quantifier is greedy), then the
\* runs after its end.
RECURSIVE SubRunsFrom(_, _, _, _, _)
SubRunsFrom(t, i, c, n, rep) ==
    LET run == [k \in 1..n |-> c]
        j   == FirstIndex({k \in i..Len(t) : StartsWithAt(t, k, run)})
    IN  IF j = 0 THEN Slice(t, i, Len(t))
        ELSE Slice(t, i, j - 1) \o rep
             \o SubRunsFrom(t, RunEnd(t, j, {c}) + 1, c, n, rep)

SubRuns(t, c, n, rep) == SubRunsFrom(t, 1, c, n, rep)

\* The index of the first character that str.strip() keeps (Len + 1 if none).
FirstKept(t) == RunEnd(t, 1, Whitespace) + 1

\* The index of the last character that str.strip() keeps (0 if none).
LastKept(t) ==
    LET j == FirstIndex({k \in 1..Len(t) : t[Len(t) + 1 - k] \notin Whitespace})
    IN  IF j = 0 THEN 0 ELSE Len(t) + 1 - j

Strip(t) == Slice(t, FirstKept(t), LastKept(t))

\* str.isdigit() for the ASCII digits: what \d+ matches and what read_csv
\* and to_numeric take for an integer.
IsDigitString(s) == s # <<>> /\ \A k \in 1..Len(s) : s[k] \in Digits

\* ------------------------------------------------------------ format_text

format_text(text) ==
    IF text = <<>> THEN text
    ELSE LET t1 == SubRuns(text, NL, 2, PARAGRAPH_BREAK)
             t2 == Replace(t1, <<NL>>, <<SP>>)
             t3 == Replace(t2, PARAGRAPH_BREAK, <<NL, NL>>)
             t4 == SubRuns(t3, SP, 2, <<SP>>)
         IN  Strip(t4)


\* ---------------------------------------------------- process_text_to_csv

\* The least number of '#' that ends a separator: the 30 of #{30,}.
MinHashes == 30

NoMatch == [ok |-> FALSE, start |-> 0, end |-> 0, group1 |-> <<>>, group2 |-> <<>>]

\* re.match of  ## p\.? ([^(#]*)\(#(\d+)\) #{30,}  at index i of t.  Every
\* quantifier of the pattern is followed by a character outside its class,
\* so the greedy match is the only one and nothing backtracks.
MatchAt(t, i) ==
    IF ~StartsWithAt(t, i, <<HASH, HASH, SP, "p">>) THEN NoMatch
    ELSE LET a == IF StartsWithAt(t, i + 4, <<".">>) THEN i + 5 ELSE i + 4
         IN  IF ~StartsWithAt(t, a, <<SP>>) THEN NoMatch
             ELSE LET g1 == a + 1
                      p  == RunEnd(t, g1, {t[k] : k \in 1..Len(t)} \ {"(", HASH}) + 1
                  IN  IF ~StartsWithAt(t, p, <<"(", HASH>>) THEN NoMatch
                      ELSE LET d == RunEnd(t, p + 2, Digits)
                           IN  IF d < p + 2 \/ ~StartsWithAt(t, d + 1, <<")", SP>>)
                               THEN NoMatch
                               ELSE LET h == RunEnd(t, d + 3, {HASH})
                                    IN  IF h - (d + 3) + 1 < MinHashes THEN NoMatch
                                        ELSE [ok     |-> TRUE,
                                              start  |-> i,
                                              end    |-> h,
                                              group1 |-> Slice(t, g1, p - 1),
                                              group2 |-> Slice(t, p + 2, d)]

\* list(re.finditer(separator_pattern, t)) from index i on: the leftmost
\* match, then the matches after its end.
RECURSIVE FindIterFrom(_, _)
FindIterFrom(t, i) ==
    LET j == FirstIndex({k \in i..Len(t) : MatchAt(t, k).ok})
    IN  IF j = 0 THEN <<>>
        ELSE <<MatchAt(t, j)>> \o FindIterFrom(t, MatchAt(t, j).end + 1)

FindIter(t) == FindIterFrom(t, 1)

\* Mutant of NoSeparators: the check for an empty match list is dropped.
NoSeparators_never(separators) == FALSE

\* `if not separators`
NoSeparators(separators) == separators = <<>>

\* Mutant of PageNumber: the label group is taken for the sequence number.
PageNumber_label(m) == m.group1

\* current_separator.group(2)
PageNumber(m) == m.group2

\* page_data of process_text_to_csv: one tuple per separator match.
PageData(t, separators) ==
    [i \in 1..Len(separators) |->
        LET start_pos    == separators[i].end + 1
            end_pos      == IF i < Len(separators) THEN separators[i + 1].start - 1
                            ELSE Len(t)
            page_content == Strip(Slice(t, start_pos, end_pos))
        IN  [page       |-> PageNumber(separators[i]),
             text       |-> page_content,
             clean_text |-> format_text(page_content)]]

\* process_text_to_csv(text_content, output_filename): what it returns, the
\* page_data it built and the output file it leaves.
process_text_to_csv(t, writable, file) ==
    LET separators == FindIter(t)
    IN  IF NoSeparators(separators)
        THEN [result |-> "Error: No page separators found", page_data |-> <<>>,
              outfile |-> file]
        ELSE LET pd == PageData(t, separators)
             IN  IF writable
                 THEN [result |-> "CSV file created successfully", page_data |-> pd,
                       outfile |-> Written(pd)]
                 ELSE [result |-> "Error writing CSV file", page_data |-> pd,
                       outfile |-> file]

\* ------------------------------------------------------ input documents

EmptyFile == [has_page |-> TRUE, cols |-> <<>>, rows |-> <<>>]
EmptyTable == [cols |-> <<>>, rows |-> <<>>]

\* The variables of combine_dataFiles.py while another script runs.
NoCombine ==
    /\ file1 = EmptyFile
    /\ file2 = EmptyFile
    /\ outer_sorts_keys = TRUE
    /\ merged_presort = EmptyTable
    /\ merged_df = EmptyTable


Hashes(n) == [k \in 1..n |-> HASH]

SepLine(dot, label, seq, n) ==
    [kind |-> "sep", dot |-> dot, label |-> label, seq |-> seq, hashes |-> n,
     body |-> <<>>]

TextLine(body) ==
    [kind |-> "text", dot |-> FALSE, label |-> <<>>, seq |-> <<>>, hashes |-> 0,
     body |-> body]

\* The lines a document is drawn from: separators of the documented form
\* '## p. xiv (#20) ####...', with and without the dot and the label, one
\* with a roman sequence token, one a '#' short, and lines of page text.
LineChoices ==
    { SepLine(TRUE,  <<>>,                    <<"1">>,      MinHashes),
      SepLine(TRUE,  <<"x", "i", "v", SP>>,   <<"2", "0">>, MinHashes + 1),
      SepLine(FALSE, <<SP, "3", SP>>,         <<"3">>,      MinHashes),
      SepLine(TRUE,  <<"i", "i", SP>>,        <<"i", "i">>, MinHashes),
      SepLine(TRUE,  <<>>,                    <<"4">>,      MinHashes - 1),
      TextLine(<<"a", "b">>),
      TextLine(<<>>),
      TextLine(<<"c", SP, SP, "d">>) }

\* '## p' ['.'] ' ' label '(#' seq ') ' '#'*n, or the text of the line.
RenderLine(d) ==
    IF d.kind = "sep"
    THEN <<HASH, HASH, SP, "p">> \o (IF d.dot THEN <<".">> ELSE <<>>) \o <<SP>>
         \o d.label \o <<"(", HASH>> \o d.seq \o <<")", SP>> \o Hashes(d.hashes)
    ELSE d.body

\* file.read(): the lines joined by newlines.
RECURSIVE RenderDoc(_)
RenderDoc(lines) ==
    IF lines = <<>> THEN <<>>
    ELSE IF Len(lines) = 1 THEN RenderLine(lines[1])
    ELSE RenderLine(lines[1]) \o <<NL>> \o RenderDoc(Tail(lines))

Documents == UNION {[1..n -> LineChoices] : n \in 0..MaxLines}

\* main() of process_ht_fulltext.py: read the input, process it, print the
\* result; only a failure to read the input exits with status 1.
main_process ==
    /\ pc = "start"
    /\ pc' = "exited"
    /\ IF input_state = "missing"
       THEN /\ result' = "Error: Input file not found"
            /\ exit_status' = 1
            /\ UNCHANGED <<page_data, outfile>>
       ELSE IF input_state = "unreadable"
       THEN /\ result' = "Error processing file"
            /\ exit_status' = 1
            /\ UNCHANGED <<page_data, outfile>>
       ELSE LET r == process_text_to_csv(RenderDoc(doc), output_writable, outfile)
            IN  /\ result' = r.result
                /\ page_data' = r.page_data
                /\ outfile' = r.outfile
                /\ exit_status' = 0
    /\ UNCHANGED <<doc, input_state, output_writable, formatVars, combineVars>>

InitProcess ==
    /\ pc = "start"
    /\ doc \in Documents
    /\ input_state \in {"ok", "missing", "unreadable"}
    /\ output_writable \in BOOLEAN
    /\ page_data = <<>>
    /\ result = None
    /\ outfile = Absent
    /\ exit_status = NotExited
    /\ raw_text = <<>>
    /\ clean_text = <<>>
    /\ NoCombine

SpecProcess == InitProcess /\ [][main_process]_vars

\* ---------------------------------------------------- format_text alone

FormatChunks == {<<"a">>, <<SP>>, <<NL>>, PARAGRAPH_BREAK}

RECURSIVE Flatten(_)
Flatten(ss) == IF ss = <<>> THEN <<>> ELSE Head(ss) \o Flatten(Tail(ss))

RawTexts == {Flatten(cs) : cs \in UNION {[1..n -> FormatChunks] : n \in 0..MaxChunks}}

apply_format_text ==
    /\ pc = "start"
    /\ pc' = "exited"
    /\ clean_text' = format_text(raw_text)
    /\ UNCHANGED <<input_state, output_writable, result, outfile, exit_status,
                   raw_text, processVars, combineVars>>

InitFormat ==
    /\ pc = "start"
    /\ raw_text \in RawTexts
    /\ clean_text = <<>>
    /\ doc = <<>>
    /\ input_state = "ok"
    /\ output_writable = TRUE
    /\ page_data = <<>>
    /\ result = None
    /\ outfile = Absent
    /\ exit_status = NotExited
    /\ NoCombine

SpecFormat == InitFormat /\ [][apply_format_text]_vars


\* ------------------------------------------------------ combine_csv_files
\* A CSV file is [has_page, cols, rows]: whether it has a 'page' column, the
\* names of its other columns in order, and its rows [page, cells], the
\* cells in the order of cols.  A name and a cell are sequences of tokens,
\* a page cell a sequence of characters.  pandas is modelled by what
\* read_csv, replace, rename, merge, to_numeric and sort_values do to such
\* tables.

\* np.nan, and the empty cell of a CSV file.
NaN == <<>>

NoBodyData == <<"No body data">>
NoPageData == <<"No page data">>

\* A value of the page column: an int64 or a str.
IntKey(n) == [isnum |-> TRUE, n |-> n, s |-> <<>>]
StrKey(s) == [isnum |-> FALSE, n |-> 0, s |-> s]

DigitValue(c) ==
    CASE c = "0" -> 0 [] c = "1" -> 1 [] c = "2" -> 2 [] c = "3" -> 3
      [] c = "4" -> 4 [] c = "5" -> 5 [] c = "6" -> 6 [] c = "7" -> 7
      [] c = "8" -> 8 [] c = "9" -> 9

\* int(s) of a string of digits.
RECURSIVE ParseInt(_)
ParseInt(s) ==
    IF s = <<>> THEN 0
    ELSE ParseInt(SubSeq(s, 1, Len(s) - 1)) * 10 + DigitValue(s[Len(s)])

\* ord(c) for the characters of the page keys.
CodePoint(c) ==
    IF c \in Digits THEN 48 + DigitValue(c)
    ELSE CASE c = "i" -> 105 [] c = "v" -> 118 [] c = "x" -> 120

\* s < t for Python strings: by code point, a proper prefix first.
RECURSIVE StrLess(_, _)
StrLess(s, t) ==
    IF t = <<>> THEN FALSE
    ELSE IF s = <<>> THEN TRUE
    ELSE IF s[1] # t[1] THEN CodePoint(s[1]) < CodePoint(t[1])
    ELSE StrLess(Tail(s), Tail(t))

\* The order of two values of one column: numbers by value, strings by
\* code point.
KeyLess(a, b) ==
    IF a.isnum /\ b.isnum THEN a.n < b.n ELSE StrLess(a.s, b.s)

Range(f) == {f[k] : k \in DOMAIN f}

RECURSIVE InsertSorted(_, _, _)
InsertSorted(r, sorted, k) ==
    IF k > Len(sorted) THEN Append(sorted, r)
    ELSE IF KeyLess(r.page, sorted[k].page)
         THEN SubSeq(sorted, 1, k - 1) \o <<r>> \o SubSeq(sorted, k, Len(sorted))
         ELSE InsertSorted(r, sorted, k + 1)

\* DataFrame.sort_values('page'): ascending; rows of equal page keep their
\* order (the sort of arrays this short is an insertion sort).
RECURSIVE sort_values(_)
sort_values(rows) ==
    IF rows = <<>> THEN <<>>
    ELSE InsertSorted(rows[Len(rows)], sort_values(SubSeq(rows, 1, Len(rows) - 1)), 1)

\* The dtype read_csv infers for the page column: int64 when every cell is
\* an integer, object otherwise (and for a column without cells).
PageDtype(file) ==
    IF file.rows = <<>> THEN "empty"
    ELSE IF \A k \in 1..Len(file.rows) : IsDigitString(file.rows[k].page)
         THEN "int64" ELSE "object"

\* pd.read_csv(file)
read_csv(file) ==
    LET dtype == PageDtype(file)
    IN  [has_page |-> file.has_page,
         cols     |-> file.cols,
         dtype    |-> dtype,
         rows     |-> [k \in 1..Len(file.rows) |->
                        [page  |-> IF dtype = "int64"
                                   THEN IntKey(ParseInt(file.rows[k].page))
                                   ELSE StrKey(file.rows[k].page),
                         cells |-> file.rows[k].cells]]]

\* Series.replace("No body data", np.nan) on one cell.
ReplaceSentinel(cell) == IF cell = NoBodyData THEN NaN ELSE cell

\* The loop over non_page_cols: every column of df2 but 'page'.
NormalizeSentinels(df2) ==
    [df2 EXCEPT !.rows =
        [k \in 1..Len(df2.rows) |->
            [df2.rows[k] EXCEPT !.cells =
                [c \in 1..Len(df2.cols) |-> ReplaceSentinel(df2.rows[k].cells[c])]]]]

\* len(set(cols1 + cols2)) < len(cols1 + cols2)
HasDuplicate(cols1, cols2) ==
    Cardinality(Range(cols1 \o cols2)) < Len(cols1 \o cols2)

\* Mutant of RenameFirst: the last column is renamed, not the first.
RenameFirst_last(cols, prefix) ==
    [k \in 1..Len(cols) |-> IF k = Len(cols) THEN <<prefix>> \o cols[k] ELSE cols[k]]

\* df.rename(columns={cols[0]: prefix + cols[0]}): every column that bears
\* the name of the first one is renamed.
RenameFirst(cols, prefix) ==
    IF Len(cols) > 0
    THEN [k \in 1..Len(cols) |-> IF cols[k] = cols[1] THEN <<prefix>> \o cols[k]
                                 ELSE cols[k]]
    ELSE cols

\* The names pd.merge gives the columns of one side: a name the other side
\* bears too gets the suffix ('_x' left, '_y' right).
Suffixed(cols, others, suffix) ==
    [k \in 1..Len(cols) |-> IF cols[k] \in Range(others) THEN cols[k] \o <<suffix>>
                            ELSE cols[k]]

\* The page values of a table, each once, in the order they first occur.
RECURSIVE FirstOccurrences(_)
FirstOccurrences(keys) ==
    IF keys = <<>> THEN <<>>
    ELSE LET init == FirstOccurrences(SubSeq(keys, 1, Len(keys) - 1))
             last == keys[Len(keys)]
         IN  IF last \in Range(init) THEN init ELSE Append(init, last)

PageColumn(rows) == [k \in 1..Len(rows) |-> rows[k].page]

RECURSIVE SortKeys(_)
SortKeys(keys) ==
    IF keys = <<>> THEN <<>>
    ELSE LET init == SortKeys(SubSeq(keys, 1, Len(keys) - 1))
             last == keys[Len(keys)]
             n    == Cardinality({k \in 1..Len(init) : ~KeyLess(last, init[k])})
         IN  SubSeq(init, 1, n) \o <<last>> \o SubSeq(init, n + 1, Len(init))

\* Mutant of OuterKeys: a left join, the keys of the left table alone.
OuterKeys_leftOnly(rows1, rows2, sorts) ==
    LET keys == FirstOccurrences(PageColumn(rows1))
    IN  IF sorts THEN SortKeys(keys) ELSE keys

\* The order of the join keys of an outer merge.  pandas 2.2 and later sort
\* them; earlier releases keep the order of first occurrence, the left
\* table's keys first.
OuterKeys(rows1, rows2, sorts) ==
    LET keys == FirstOccurrences(PageColumn(rows1) \o PageColumn(rows2))
    IN  IF sorts THEN SortKeys(keys) ELSE keys

NaNs(n) == [k \in 1..n |-> NaN]

\* Mutant of RowsOfKey: a key that both sides have gives one row, the first
\* left row with the first right row.
RowsOfKey_firstPair(key, df1, df2) ==
    LET Has(r) == r.page = key
        ls == SelectSeq(df1.rows, Has)
        rs == SelectSeq(df2.rows, Has)
    IN  IF rs = <<>>
        THEN [k \in 1..Len(ls) |->
                [page |-> key, cells |-> ls[k].cells \o NaNs(Len(df2.cols))]]
        ELSE IF ls = <<>>
        THEN [k \in 1..Len(rs) |->
                [page |-> key, cells |-> NaNs(Len(df1.cols)) \o rs[k].cells]]
        ELSE << [page |-> key, cells |-> ls[1].cells \o rs[1].cells] >>

\* Mutant of RowsOfKey: the rows of a key the left side lacks lose the
\* right side's cells.
RowsOfKey_rightBlank(key, df1, df2) ==
    LET Has(r) == r.page = key
        ls == SelectSeq(df1.rows, Has)
        rs == SelectSeq(df2.rows, Has)
    IN  IF rs = <<>>
        THEN [k \in 1..Len(ls) |->
                [page |-> key, cells |-> ls[k].cells \o NaNs(Len(df2.cols))]]
        ELSE IF ls = <<>>
        THEN [k \in 1..Len(rs) |->
                [page |-> key, cells |-> NaNs(Len(df1.cols) + Len(df2.cols))]]
        ELSE [k \in 1..(Len(ls) * Len(rs)) |->
                [page  |-> key,
                 cells |-> ls[((k - 1) \div Len(rs)) + 1].cells
                           \o rs[((k - 1) % Len(rs)) + 1].cells]]

\* The rows of the outer join for one key: every pairing of a left and a
\* right row with it, left-major, or the rows of the one side that has it
\* with NaN for the other side's columns.
RowsOfKey(key, df1, df2) ==
    LET Has(r) == r.page = key
        ls == SelectSeq(df1.rows, Has)
        rs == SelectSeq(df2.rows, Has)
        n1 == Len(df1.cols)
        n2 == Len(df2.cols)
    IN  IF rs = <<>>
        THEN [k \in 1..Len(ls) |-> [page |-> key, cells |-> ls[k].cells \o NaNs(n2)]]
        ELSE IF ls = <<>>
        THEN [k \in 1..Len(rs) |-> [page |-> key, cells |-> NaNs(n1) \o rs[k].cells]]
        ELSE [k \in 1..(Len(ls) * Len(rs)) |->
                [page  |-> key,
                 cells |-> ls[((k - 1) \div Len(rs)) + 1].cells
                           \o rs[((k - 1) % Len(rs)) + 1].cells]]

RECURSIVE RowsOfKeys(_, _, _)
RowsOfKeys(keys, df1, df2) ==
    IF keys = <<>> THEN <<>>
    ELSE RowsOfKey(keys[1], df1, df2) \o RowsOfKeys(Tail(keys), df1, df2)

\* pd.merge refuses to join an int64 column with a column of strings.
IncompatibleDtypes(df1, df2) ==
    \/ df1.dtype = "int64" /\ df2.dtype = "object"
    \/ df1.dtype = "object" /\ df2.dtype = "int64"

\* pd.merge(df1, df2, on='page', how='outer')
merge(df1, df2, sorts) ==
    IF ~df1.has_page \/ ~df2.has_page
    THEN [raised |-> "KeyError: 'page'", cols |-> <<>>, rows |-> <<>>]
    ELSE IF IncompatibleDtypes(df1, df2)
    THEN [raised |-> "ValueError: merge on int64 and object columns",
          cols |-> <<>>, rows |-> <<>>]
    ELSE [raised |-> None,
          cols   |-> Suffixed(df1.cols, df2.cols, "_x")
                     \o Suffixed(df2.cols, df1.cols, "_y"),
          rows   |-> RowsOfKeys(OuterKeys(df1.rows, df2.rows, sorts), df1, df2)]

\* Whether pd.to_numeric accepts a value: a number, or a string of digits.
IsNumeric(key) == key.isnum \/ IsDigitString(key.s)

to_numeric(key) == IF key.isnum THEN key ELSE IntKey(ParseInt(key.s))

\* Mutant of SortByPage: when to_numeric raises the rows are left as they
\* are.
SortByPage_keepsOrder(rows) ==
    IF \A k \in 1..Len(rows) : IsNumeric(rows[k].page)
    THEN sort_values([k \in 1..Len(rows) |->
                        [rows[k] EXCEPT !.page = to_numeric(rows[k].page)]])
    ELSE rows

\* The try/except around to_numeric and sort_values: the page column made
\* numeric and the rows sorted by it, or, when to_numeric raises, the rows
\* sorted by the page column as it is.
SortByPage(rows) ==
    IF \A k \in 1..Len(rows) : IsNumeric(rows[k].page)
    THEN sort_values([k \in 1..Len(rows) |->
                        [rows[k] EXCEPT !.page = to_numeric(rows[k].page)]])
    ELSE sort_values(rows)

\* combine_csv_files(file1, file2, output_filename) up to the write: the
\* exception that escapes it (None if none), the merged table before the
\* sort and the table after it.
CombineTables(f1, f2, sorts) ==
    LET df1  == read_csv(f1)
        df2  == NormalizeSentinels(read_csv(f2))
        dup  == HasDuplicate(df1.cols, df2.cols)
        df1r == IF dup THEN [df1 EXCEPT !.cols = RenameFirst(df1.cols, "file1_")]
                ELSE df1
        df2r == IF dup THEN [df2 EXCEPT !.cols = RenameFirst(df2.cols, "file2_")]
                ELSE df2
        m    == merge(df1r, df2r, sorts)
    IN  [raised  |-> m.raised,
         presort |-> [cols |-> m.cols, rows |-> m.rows],
         merged  |-> [cols |-> m.cols, rows |-> SortByPage(m.rows)]]

\* ----------------------------------------------------------- input tables

\* Most rows of a generated CSV file.
MaxRows == 2

\* The page cells the files are drawn from: "2" and "10" sort one way as
\* numbers and the other as text, "ii" is no number.
PageCells == {<<"2">>, <<"1", "0">>, <<"i", "i">>}

PageCellSeqs == UNION {[1..n -> PageCells] : n \in 0..MaxRows}

\* The non-key columns of the two files: the pipeline's own layout, a
\* collision of the first columns, a collision of later columns, a collision
\* of every column, and a second file without a page column.
ColumnLayouts ==
    { [cols1 |-> << <<"text">>, <<"clean_text">> >>, cols2 |-> << <<"words_pos">> >>,
       page2 |-> TRUE],
      [cols1 |-> << <<"text">> >>, cols2 |-> << <<"text">> >>, page2 |-> TRUE],
      [cols1 |-> << <<"text">>, <<"n">> >>, cols2 |-> << <<"words_pos">>, <<"n">> >>,
       page2 |-> TRUE],
      [cols1 |-> << <<"text">>, <<"n">> >>, cols2 |-> << <<"text">>, <<"n">> >>,
       page2 |-> TRUE],
      [cols1 |-> << <<"text">> >>, cols2 |-> << <<"words_pos">> >>, page2 |-> FALSE] }

\* What the first cell of the first row of the first and of the second file
\* holds: ordinary text or a sentinel.
FirstCells1 == {<<"x">>, NoBodyData}
FirstCells2 == {<<"x">>, NoBodyData, NoPageData}

\* The input files readable and the output writable or not, or an input
\* file missing.
Environments == {<<"ok", TRUE>>, <<"ok", FALSE>>, <<"missing", TRUE>>}

\* A file with the given columns and page cells: the first cell holds
\* `first`, every other cell the file's ordinary value.
MakeFile(has_page, cols, pages, first, ordinary) ==
    [has_page |-> has_page,
     cols     |-> cols,
     rows     |-> [k \in 1..Len(pages) |->
                    [page  |-> pages[k],
                     cells |-> [c \in 1..Len(cols) |->
                                 IF k = 1 /\ c = 1 THEN first ELSE ordinary]]]]

\* main() of combine_dataFiles.py: combine_csv_files reads both files,
\* merges, sorts and writes; main prints what it returns.  Only an exception
\* that escapes combine_csv_files ends the process with status 1.
main_combine ==
    /\ pc = "start"
    /\ pc' = "exited"
    /\ IF input_state # "ok"
       THEN /\ result' = "Error reading input files"
            /\ exit_status' = 0
            /\ UNCHANGED <<outfile, merged_presort, merged_df>>
       ELSE LET r == CombineTables(file1, file2, outer_sorts_keys)
            IN  IF r.raised # None
                THEN /\ result' = r.raised
                     /\ exit_status' = 1
                     /\ UNCHANGED <<outfile, merged_presort, merged_df>>
                ELSE /\ merged_presort' = r.presort
                     /\ merged_df' = r.merged
                     /\ exit_status' = 0
                     /\ IF output_writable
                        THEN /\ outfile' = Written(r.merged.rows)
                             /\ result' = "Combined CSV file created successfully"
                        ELSE /\ outfile' = outfile
                             /\ result' = "Error writing output file"
    /\ UNCHANGED <<input_state, output_writable, file1, file2, outer_sorts_keys,
                   processVars, formatVars>>

InitCombine ==
    /\ pc = "start"
    /\ \E lay \in ColumnLayouts, p1, p2 \in PageCellSeqs,
          c1 \in FirstCells1, c2 \in FirstCells2, env \in Environments :
          \* a failing file system is drawn with files of at most one row
          /\ env # <<"ok", TRUE>> => Len(p1) <= 1 /\ Len(p2) <= 1
          /\ file1 = MakeFile(TRUE, lay.cols1, p1, c1, <<"t">>)
          /\ file2 = MakeFile(lay.page2, lay.cols2, p2, c2, <<"w">>)
          /\ input_state = env[1]
          /\ output_writable = env[2]
    /\ outer_sorts_keys \in BOOLEAN
    /\ merged_presort = EmptyTable
    /\ merged_df = EmptyTable
    /\ result = None
    /\ outfile = Absent
    /\ exit_status = NotExited
    /\ doc = <<>>
    /\ page_data = <<>>
    /\ raw_text = <<>>
    /\ clean_text = <<>>

SpecCombine == InitCombine /\ [][main_combine]_vars

\* ------------------------------------------------- claims: page segmenter

\* A page separator as the specification words it: a line with a label, a
\* parenthesized '#<seq>' and at least 30 '#'.
IsPageSeparator(d) == d.kind = "sep" /\ d.hashes >= MinHashes

\* A page separator whose sequence token is made of digits.
IsDigitSeparator(d) == IsPageSeparator(d) /\ IsDigitString(d.seq)

SeqTokens(lines) == [i \in 1..Len(lines) |-> lines[i].seq]

Pages(pd) == [i \in 1..Len(pd) |-> pd[i].page]

Processed == pc = "exited" /\ input_state = "ok"

C2_NoSeparatorsNoOutput ==
    (Processed /\ SelectSeq(doc, IsDigitSeparator) = <<>>)
        => /\ result = "Error: No page separators found"
           /\ page_data = <<>>
           /\ ~outfile.exists

\* A document of three lines, none a separator the pattern matches, was
\* processed with a writable output.
C2_Witness ==
    /\ Processed
    /\ Len(doc) = MaxLines
    /\ output_writable
    /\ \E i \in 1..Len(doc) : doc[i].kind = "sep"
    /\ SelectSeq(doc, IsDigitSeparator) = <<>>
    /\ result = "Error: No page separators found"

IsErrorResult(r) ==
    r \in {"Error: No page separators found", "Error writing CSV file",
           "Error: Input file not found", "Error processing file",
           "Error reading input files", "Error writing output file",
           "KeyError: 'page'", "ValueError: merge on int64 and object columns"}

\* C9: a run that ends in an error reports it, leaves no output table and
\* exits with a status other than that of a successful run (0).
C9_ErrorsExitDistinctly ==
    (pc = "exited" /\ IsErrorResult(result))
        => ~outfile.exists /\ exit_status # 0

\* --------------------------------------------------- claims: format_text

HasTripleNewline(c) == \E i \in 1..Len(c) : StartsWithAt(c, i, <<NL, NL, NL>>)

\* Two paragraph breaks with nothing but whitespace between them.
HasStackedBreaks(c) ==
    \E i, j \in 1..Len(c) :
        /\ j >= i + 2
        /\ StartsWithAt(c, i, <<NL, NL>>)
        /\ StartsWithAt(c, j, <<NL, NL>>)
        /\ \A k \in (i + 2)..(j - 1) : c[k] \in Whitespace

HasLoneNewline(c) ==
    \E i \in 1..Len(c) :
        /\ c[i] = NL
        /\ (i = 1 \/ c[i - 1] # NL)
        /\ (i = Len(c) \/ c[i + 1] # NL)

\* C3: clean_text holds no more than one consecutive blank line and no
\* newline outside a two-newline paragraph break.
C3_CleanTextBreaks ==
    pc = "exited"
        => /\ ~HasTripleNewline(clean_text)
           /\ ~HasStackedBreaks(clean_text)
           /\ ~HasLoneNewline(clean_text)


\* ------------------------------------------------ claims: combine tables

\* combine_csv_files produced a table and wrote it.
Combined ==
    /\ pc = "exited"
    /\ result = "Combined CSV file created successfully"
    /\ outfile = Written(merged_df.rows)

\* A page cell of an input file and a page value of the output are the
\* same key.
SameKey(cell, key) ==
    IF key.isnum THEN IsDigitString(cell) /\ ParseInt(cell) = key.n ELSE key.s = cell

PageCellSet(file) == {file.rows[k].page : k \in 1..Len(file.rows)}

Occurrences(cell, file) == Cardinality({k \in 1..Len(file.rows) : file.rows[k].page = cell})

OutputRowsOf(cell) == {k \in 1..Len(merged_df.rows) : SameKey(cell, merged_df.rows[k].page)}

\* The cells of output row k that come from the first (second) file.
PrimaryCells(k) == SubSeq(merged_df.rows[k].cells, 1, Len(file1.cols))
SecondaryCells(k) ==
    SubSeq(merged_df.rows[k].cells, Len(file1.cols) + 1,
           Len(file1.cols) + Len(file2.cols))

\* The columns of the side that lacks the key are missing values.
MissingSideIsNaN(cell) ==
    \A k \in OutputRowsOf(cell) :
        /\ Occurrences(cell, file1) = 0 => \A c \in Range(PrimaryCells(k)) : c = NaN
        /\ Occurrences(cell, file2) = 0 => \A c \in Range(SecondaryCells(k)) : c = NaN

C5_NoSentinelInOutput ==
    Combined =>
        \A k \in 1..Len(merged_df.rows) :
            \A c \in Range(SecondaryCells(k)) : c \notin {NoBodyData, NoPageData}

AllNumeric(rows) == \A k \in 1..Len(rows) : IsNumeric(rows[k].page)

AscendingNumeric(rows) ==
    /\ \A k \in 1..Len(rows) : rows[k].page.isnum
    /\ \A k \in 1..(Len(rows) - 1) : rows[k].page.n <= rows[k + 1].page.n

AscendingText(rows) ==
    /\ \A k \in 1..Len(rows) : ~rows[k].page.isnum
    /\ \A k \in 1..(Len(rows) - 1) : ~StrLess(rows[k + 1].page.s, rows[k].page.s)

CountOf(r, rows) == Cardinality({k \in 1..Len(rows) : rows[k] = r})

\* The rows of the output are those of the merge, each as often, their
\* page keys made numbers when all of them are numbers.
SameRows(out, pre) ==
    LET conv == [k \in 1..Len(pre) |->
                    IF AllNumeric(pre) THEN [pre[k] EXCEPT !.page = to_numeric(pre[k].page)]
                    ELSE pre[k]]
    IN  \A r \in Range(out) \cup Range(conv) : CountOf(r, out) = CountOf(r, conv)

NoRepeats(file) == Cardinality(PageCellSet(file)) = Len(file.rows)

RowBounds ==
    /\ Len(merged_df.rows) <= Len(file1.rows) + Len(file2.rows)
    /\ Len(merged_df.rows) = Len(file1.rows) + Len(file2.rows)
          => PageCellSet(file1) \cap PageCellSet(file2) = {}

Read(cell, normalize) == IF normalize /\ cell = NoBodyData THEN NaN ELSE cell

\* The rows of a table combined from fa (first) and fb (second) as sets of
\* (input table, column of the input, value), whatever the order and the
\* names of the output's columns.
Content(m, fa, fb, ida, idb, normalize) ==
    { [page |-> m.rows[r].page,
       vals |-> {<<ida, fa.cols[k], Read(m.rows[r].cells[k], normalize)>> :
                    k \in 1..Len(fa.cols)}
                \cup {<<idb, fb.cols[k],
                         Read(m.rows[r].cells[Len(fa.cols) + k], normalize)>> :
                        k \in 1..Len(fb.cols)}] : r \in 1..Len(m.rows) }

\* combine_csv_files(file2, file1, ...)
Swapped == CombineTables(file2, file1, outer_sorts_keys)

\* C8 as stated: combining (A, B) and (B, A) gives the same set of rows up
\* to the order and the names of the columns.
C8_Commutative ==
    Combined =>
        /\ Swapped.raised = None
        /\ Content(merged_df, file1, file2, "A", "B", FALSE)
             = Content(Swapped.merged, file2, file1, "B", "A", FALSE)

\* C8 amended: combining (A, B) and (B, A) gives the same set of rows up to
\* the order and the names of the columns once every "No body data" cell is
\* read as missing: the cells of the table given second are normalized,
\* those of the table given first are not.
C8_CommutativeUpToSentinel ==
    Combined =>
        /\ Swapped.raised = None
        /\ Content(merged_df, file1, file2, "A", "B", TRUE)
             = Content(Swapped.merged, file2, file1, "B", "A", TRUE)

\* Two tables of two rows sharing one key, the first with a sentinel cell,
\* were combined.
C8_Witness ==
    /\ Combined
    /\ Len(file1.rows) = 2 /\ Len(file2.rows) = 2
    /\ Len(merged_df.rows) = 3
    /\ file1.rows[1].cells[1] = NoBodyData

\* The name the claim gives column k of a file in the output: the first
\* column prefixed when the names collide, the others as they are.
RenamedName(cols, k, prefix) ==
    IF HasDuplicate(file1.cols, file2.cols) /\ k = 1 THEN <<prefix>> \o cols[k]
    ELSE cols[k]

RenamedNames(cols, prefix) == [k \in 1..Len(cols) |-> RenamedName(cols, k, prefix)]

\* C10 as stated: on a collision the first non-key column of each table is
\* prefixed and every other column keeps its name in the output, colliding
\* or not; without a collision every column keeps its name.
C10_OnlyFirstRenamed ==
    Combined =>
        merged_df.cols = RenamedNames(file1.cols, "file1_")
                         \o RenamedNames(file2.cols, "file2_")

\* C10 amended: on a collision the first non-key column of each table is
\* prefixed; every other column keeps its name unless the other table still
\* has a column of that name, and then the merge names the first table's
\* column '<name>_x' and the second's '<name>_y'; without a collision every
\* column keeps its name.
C10_FirstRenamedRestSuffixed ==
    Combined =>
        LET n1 == RenamedNames(file1.cols, "file1_")
            n2 == RenamedNames(file2.cols, "file2_")
        IN  merged_df.cols =
                [k \in 1..Len(n1) |-> IF \E j \in 1..Len(n2) : n2[j] = n1[k]
                                      THEN n1[k] \o <<"_x">> ELSE n1[k]]
                \o [k \in 1..Len(n2) |-> IF \E j \in 1..Len(n1) : n1[j] = n2[k]
                                         THEN n2[k] \o <<"_y">> ELSE n2[k]]

\* Tables whose second columns collide and whose first columns do not were
\* combined.
C10_Witness ==
    /\ Combined
    /\ HasDuplicate(file1.cols, file2.cols)
    /\ file1.cols[1] # file2.cols[1]
    /\ merged_df.cols[1] = <<"file1_">> \o file1.cols[1]

=============================================================================
